---- MODULE Spec2Model ----
(***************************************************************************)
(* Model of the ArUco head tracker of opentrack                            *)
(* (tracker-aruco/ftnoir_tracker_aruco.cpp): the capture thread            *)
(* (aruco_tracker::run), the GUI thread (start_tracker, the destructor and *)
(* the slots of aruco_dialog) and the consumer thread that calls data().   *)
(*                                                                         *)
(* Real numbers are modelled by integers.  Solver translations are         *)
(* multiples of ten, so that the multiplication by .1 in set_rmat is exact.*)
(* Image points are kept in half pixels, so that the float -> int          *)
(* conversion of set_roi_from_projection truncates.                        *)
(***************************************************************************)
EXTENDS Integers, Sequences, FiniteSets, TLC

\* ------------------------------------------------------------------------
\* Bounds of the model
\* ------------------------------------------------------------------------

\* number of samples one calibration run may feed to the accumulator
MaxSamples == 2

\* number of times calibration may be started
MaxRuns == 2

\* ------------------------------------------------------------------------
\* Values
\* ------------------------------------------------------------------------

\* order of the components of a pose: TX, TY, TZ, Yaw, Pitch, Roll
TX == 1

TY == 2

TZ == 3

Yaw == 4

Pitch == 5

Roll == 6

Axes == 1..6

ZeroPose == <<0, 0, 0, 0, 0, 0>>

\* contents of the pose array that the constructor leaves uninitialised
Indeterminate == { ZeroPose, <<7, 7, 7, 7, 7, 7>> }

ZeroVec == <<0, 0, 0>>

\* cv::Matx33d() : the all-zero matrix of a default-constructed member
ZeroMat == <<"mat", 0>>

\* cv::Rect(65535, 65535, 0, 0)
Sentinel == [x |-> 65535, y |-> 65535, width |-> 0, height |-> 0]

\* an empty cv::Mat
NoFrame == [cols |-> 0, rows |-> 0]

\* sizes of the frames a camera can deliver
FrameSizes == { [cols |-> 16, rows |-> 12], [cols |-> 8, rows |-> 6] }

\* the frame size open_camera asks the device for
Resolution == [cols |-> 16, rows |-> 12]

\* what cv::solvePnP can return for the markers of a frame: a rotation
\* vector (named by a number) and a translation vector
Solutions ==
    { [rvec |-> 1, tvec |-> <<10, 20, 30>>],
      [rvec |-> 2, tvec |-> <<-40, 50, -60>>] }

\* cv::Rodrigues : rotation vector -> rotation matrix
Rodrigues(rv) == <<"mat", rv>>

\* cv::RQDecomp3x3 : rotation matrix -> Euler angles (e0, e1, e2)
RQDecomp3x3(m) ==
    CASE m[2] = 1 -> <<15, -25, 35>>
      [] m[2] = 2 -> <<-45, 55, 65>>
      [] OTHER    -> <<0, 0, 0>>

\* how many markers the detector can find in an image
MarkerCounts == {0, 1, 2}

\* roi_projection before the first projection
NoPoints == << <<0, 0>>, <<0, 0>>, <<0, 0>>, <<0, 0>> >>

\* cv::projectPoints of the centroid (0, 0, 0), in half pixels, for the
\* rotations and translations the model names 1, 2, ...: inside the frame,
\* at its edge, between two pixels, left of it and beyond its far corner
ProjectCentroid(rv) ==
    CASE rv = 1 -> <<11, 10>>
      [] rv = 2 -> <<1, 16>>
      [] rv = 3 -> <<12, 11>>
      [] rv = 4 -> <<-9, 10>>
      [] rv = 5 -> <<45, 30>>
      [] OTHER  -> <<0, 0>>

\* the rotations and translations ProjectCentroid knows
Rotations == 1..5

\* how far, in half pixels, projected corner points lie from the projected
\* centroid
Extents == {0, 1, 6}

\* the rectangle of four points around c that reaches a1 to the left, a2 to
\* the right, b1 up and b2 down
Around(c, a1, a2, b1, b2) ==
    << <<c[1] - a1, c[2] - b1>>, <<c[1] + a2, c[2] - b1>>,
       <<c[1] + a2, c[2] + b2>>, <<c[1] - a1, c[2] + b2>> >>

\* cv::projectPoints of the four roi_points, in half pixels: the outline
\* that belongs to the rotation, moved by the offset d of the model points
ProjectPoints(rv, d) ==
    LET q == CASE rv = 1 -> << <<5, 5>>, <<17, 4>>, <<18, 15>>, <<4, 14>> >>
               [] rv = 2 -> << <<-7, 3>>, <<9, 3>>, <<9, 29>>, <<-7, 29>> >>
               [] OTHER  -> Around(ProjectCentroid(rv), 4, 4, 4, 4)
    IN  [i \in 1..4 |-> <<q[i][1] + d[1], q[i][2] + d[2]>>]

\* int(float) : truncation toward zero of a coordinate kept in half pixels
ToInt(v) == IF v >= 0 THEN v \div 2 ELSE -((-v) \div 2)

\* tvec(i) * .1
Scale(v) == v \div 10

\* ------------------------------------------------------------------------
\* ROI arithmetic
\* ------------------------------------------------------------------------

\* a clamp that keeps the left and upper edge off the border of the frame
clamp_last_roi_OffBorder(roi, cols, rows) ==
    LET x1 == IF roi.x < 1 THEN 1 ELSE roi.x
        y1 == IF roi.y < 1 THEN 1 ELSE roi.y
        w1 == IF roi.width < 1 THEN 1 ELSE roi.width
        h1 == IF roi.height < 1 THEN 1 ELSE roi.height
        x2 == IF x1 >= cols - 1 THEN cols - 1 ELSE x1
        w2 == IF w1 >= cols - 1 THEN cols - 1 ELSE w1
        y2 == IF y1 >= rows - 1 THEN rows - 1 ELSE y1
        h2 == IF h1 >= rows - 1 THEN rows - 1 ELSE h1
    IN  [x |-> x2, y |-> y2, width |-> w2 - x2, height |-> h2 - y2]

clamp_last_roi(roi, cols, rows) ==
    LET x1 == IF roi.x < 0 THEN 0 ELSE roi.x
        y1 == IF roi.y < 0 THEN 0 ELSE roi.y
        w1 == IF roi.width < 1 THEN 1 ELSE roi.width
        h1 == IF roi.height < 1 THEN 1 ELSE roi.height
        x2 == IF x1 >= cols - 1 THEN cols - 1 ELSE x1
        w2 == IF w1 >= cols - 1 THEN cols - 1 ELSE w1
        y2 == IF y1 >= rows - 1 THEN rows - 1 ELSE y1
        h2 == IF h1 >= rows - 1 THEN rows - 1 ELSE h1
    IN  [x |-> x2, y |-> y2, width |-> w2 - x2, height |-> h2 - y2]

\* the least and the greatest element of a set of numbers
MinOf(S) == CHOOSE m \in S : \A n \in S : m <= n

MaxOf(S) == CHOOSE m \in S : \A n \in S : m >= n

\* set_roi_from_projection: starting from Rect(cols-1, rows-1, 0, 0), the
\* loop lowers x and y to the least, and raises width and height to the
\* greatest, coordinate of the four points converted to int; then the
\* rectangle is clamped
set_roi_from_projection(projection, cols, rows) ==
    LET px == {ToInt(projection[i][1]) : i \in 1..4}
        py == {ToInt(projection[i][2]) : i \in 1..4}
    IN  clamp_last_roi([x      |-> MinOf(px \cup {cols - 1}),
                        y      |-> MinOf(py \cup {rows - 1}),
                        width  |-> MaxOf(px \cup {0}),
                        height |-> MaxOf(py \cup {0})],
                       cols, rows)

\* ------------------------------------------------------------------------
\* State
\* ------------------------------------------------------------------------

VARIABLES
    stop,         \* aruco_tracker::stop
    camera,       \* state of the cv::VideoCapture
    camera_mtx,   \* owner of camera_mtx
    mtx,          \* owner of mtx
    videoWidget,  \* "null", "alive" or "deleted"
    layout,       \* "null", "set" or "deleted"
    slept,        \* the destructor's settling delay has elapsed
    color,        \* size of the frame read last
    last_roi,
    ok,           \* result of the detection of the current iteration
    outcome,      \* how the current iteration went: "none" while undecided,
                  \* "nodetect", "nosolve" or "solved"
    obj_points,   \* the offset set_points gave the model points
    rvec, tvec,   \* result of the last successful solvePnP
    pose, r, t,   \* pose and rotation/translation store, guarded by mtx
    cap_pc,       \* position of the capture thread
    cap_i,        \* number of stores set_rmat has done
    gui_pc,       \* position of the GUI thread
    gui_i,        \* number of elements start_tracker has zeroed
    gui_r,        \* the rotation getRT has copied out
    tracker,      \* aruco_dialog::tracker is not null
    calib_active, \* calib_timer.isActive()
    calibrator,   \* the samples the accumulator has taken since its reset
    headpos,      \* s.headpos_x, s.headpos_y, s.headpos_z
    data_pc,      \* position of the consumer thread in data()
    data_i,       \* number of elements data() has copied
    buf,          \* the array data() fills
    afterStart,   \* the call of data() began after start_tracker returned
    pose0,        \* the contents of pose after construction
    lastGood,     \* the pose of the last completed detect -> solve cycle
    run,          \* number of calibration runs started
    markers,      \* number of markers the detector found last
    roi_projection, \* the four projected points of set_last_roi
    repr2,        \* the projected centroid of draw_centroid
    h,            \* the offset set_last_roi read
    obj_run,      \* set_points began in the calibration run that is active
    format,       \* size of the frames the device delivers
    store_run     \* r and t come from a solve whose set_points began in
                  \* the calibration run that is active

trackerVars == <<stop, camera, videoWidget, layout, slept>>

lockVars == <<camera_mtx, mtx>>

storeVars == <<pose, r, t>>

capLocals == <<color, last_roi, ok, outcome, obj_points, rvec, tvec, cap_i>>

guiVars == <<gui_pc, gui_i, gui_r>>

dlgVars == <<tracker, calib_active, calibrator, headpos>>

dataVars == <<data_pc, data_i, buf, afterStart>>

histVars == <<pose0, lastGood, run>>

detVars == <<markers, roi_projection, repr2, h, obj_run>>

tagVars == <<format, store_run>>

vars == <<trackerVars, lockVars, storeVars, capLocals, cap_pc, guiVars,
          dlgVars, dataVars, histVars, detVars, tagVars>>

\* aruco_tracker::aruco_tracker and aruco_dialog::aruco_dialog
Init ==
    /\ stop = FALSE
    /\ camera = "none"
    /\ camera_mtx = "free"
    /\ mtx = "free"
    /\ videoWidget = "null"
    /\ layout = "null"
    /\ slept = FALSE
    /\ color = NoFrame
    /\ last_roi = Sentinel
    /\ ok = FALSE
    /\ outcome = "none"
    /\ obj_points = ZeroVec
    /\ rvec = 0
    /\ tvec = ZeroVec
    /\ pose \in Indeterminate
    /\ r = ZeroMat
    /\ t = ZeroVec
    /\ cap_pc = "idle"
    /\ cap_i = 0
    /\ gui_pc = "ready"
    /\ gui_i = 0
    /\ gui_r = ZeroMat
    /\ tracker = FALSE
    /\ calib_active = FALSE
    /\ calibrator = <<>>
    /\ headpos = ZeroVec
    /\ data_pc = "idle"
    /\ data_i = 0
    /\ buf = ZeroPose
    /\ afterStart = FALSE
    /\ pose0 = pose
    /\ lastGood = ZeroPose
    /\ run = 0
    /\ markers = 0
    /\ roi_projection = NoPoints
    /\ repr2 = <<0, 0>>
    /\ h = ZeroVec
    /\ obj_run = FALSE
    /\ format = Resolution
    /\ store_run = FALSE

\* ------------------------------------------------------------------------
\* The capture thread: aruco_tracker::run
\* ------------------------------------------------------------------------

\* run() calls open_camera(), which first takes camera_mtx
CapOpenLock ==
    /\ cap_pc = "open"
    /\ camera_mtx = "free"
    /\ camera_mtx' = "cap"
    /\ cap_pc' = "opening"
    /\ UNCHANGED <<trackerVars, mtx, storeVars, capLocals>>
    /\ UNCHANGED <<guiVars, dlgVars, dataVars, histVars>>
    /\ UNCHANGED <<detVars, tagVars>>

\* a run() that enters the loop whatever open_camera() reports
CapOpenCamera_IgnoresFailure ==
    /\ cap_pc = "opening"
    /\ \E opened \in BOOLEAN :
         camera' = IF opened THEN "open" ELSE "failed"
    /\ cap_pc' = "loop"
    /\ camera_mtx' = "free"
    /\ UNCHANGED <<stop, videoWidget, layout, slept, mtx, storeVars>>
    /\ UNCHANGED <<capLocals, guiVars, dlgVars, dataVars, histVars>>
    /\ UNCHANGED <<detVars, tagVars>>

\* open_camera() constructs and configures the device and reports whether
\* it is opened; when it is not, run() returns
CapOpenCamera ==
    /\ cap_pc = "opening"
    /\ \E opened \in BOOLEAN :
         /\ camera' = IF opened THEN "open" ELSE "failed"
         /\ cap_pc' = IF opened THEN "loop" ELSE "done"
    /\ camera_mtx' = "free"
    /\ UNCHANGED <<stop, videoWidget, layout, slept, mtx, storeVars>>
    /\ UNCHANGED <<capLocals, guiVars, dlgVars, dataVars, histVars>>
    /\ UNCHANGED <<detVars, tagVars>>

\* while (!stop)
CapLoop ==
    /\ cap_pc = "loop"
    /\ cap_pc' = IF stop THEN "done" ELSE "lock"
    /\ outcome' = "none"
    /\ UNCHANGED <<trackerVars, lockVars, storeVars>>
    /\ UNCHANGED <<color, last_roi, ok, obj_points, rvec, tvec, cap_i>>
    /\ UNCHANGED <<guiVars, dlgVars, dataVars, histVars>>
    /\ UNCHANGED <<detVars, tagVars>>

\* QMutexLocker l(&camera_mtx)
CapCameraLock ==
    /\ cap_pc = "lock"
    /\ camera_mtx = "free"
    /\ camera_mtx' = "cap"
    /\ cap_pc' = "read"
    /\ UNCHANGED <<trackerVars, mtx, storeVars, capLocals>>
    /\ UNCHANGED <<guiVars, dlgVars, dataVars, histVars>>
    /\ UNCHANGED <<detVars, tagVars>>

\* a failed read that is retried at once, without the test of stop
CapReadFail_RetriesRead ==
    /\ cap_pc = "read"
    /\ color' = NoFrame
    /\ camera_mtx' = "free"
    /\ cap_pc' = "lock"
    /\ UNCHANGED <<trackerVars, mtx, storeVars>>
    /\ UNCHANGED <<last_roi, ok, outcome, obj_points, rvec, tvec, cap_i>>
    /\ UNCHANGED <<guiVars, dlgVars, dataVars, histVars>>
    /\ UNCHANGED <<detVars, tagVars>>

\* a failed read handled like a failed detection: the ROI is reset
CapReadFail_ResetsRoi ==
    /\ cap_pc = "read"
    /\ color' = NoFrame
    /\ camera_mtx' = "free"
    /\ last_roi' = Sentinel
    /\ cap_pc' = "loop"
    /\ UNCHANGED <<trackerVars, mtx, storeVars>>
    /\ UNCHANGED <<ok, outcome, obj_points, rvec, tvec, cap_i>>
    /\ UNCHANGED <<guiVars, dlgVars, dataVars, histVars>>
    /\ UNCHANGED <<detVars, tagVars>>

\* camera.read(color) fails and leaves color empty: continue
CapReadFail ==
    /\ cap_pc = "read"
    /\ color' = NoFrame
    /\ camera_mtx' = "free"
    /\ cap_pc' = "loop"
    /\ UNCHANGED <<trackerVars, mtx, storeVars>>
    /\ UNCHANGED <<last_roi, ok, outcome, obj_points, rvec, tvec, cap_i>>
    /\ UNCHANGED <<guiVars, dlgVars, dataVars, histVars>>
    /\ UNCHANGED <<detVars, tagVars>>

\* a read whose lock lasts for the rest of the iteration
CapReadOk_KeepsLock ==
    /\ cap_pc = "read"
    /\ color' = format
    /\ markers' = 0
    /\ cap_pc' = "detect"
    /\ UNCHANGED <<trackerVars, lockVars, storeVars>>
    /\ UNCHANGED <<last_roi, ok, outcome, obj_points, rvec, tvec, cap_i>>
    /\ UNCHANGED <<guiVars, dlgVars, dataVars, histVars>>
    /\ UNCHANGED <<roi_projection, repr2, h, obj_run, tagVars>>

\* camera.read(color) delivers a frame; the lock is released at the end of
\* the block
CapReadOk ==
    /\ cap_pc = "read"
    /\ color' = format
    /\ camera_mtx' = "free"
    /\ markers' = 0
    /\ cap_pc' = "detect"
    /\ UNCHANGED <<trackerVars, mtx, storeVars>>
    /\ UNCHANGED <<last_roi, ok, outcome, obj_points, rvec, tvec, cap_i>>
    /\ UNCHANGED <<guiVars, dlgVars, dataVars, histVars>>
    /\ UNCHANGED <<roi_projection, repr2, h, obj_run, tagVars>>

\* detect_with_roi crops the frame to the region and runs the detector when
\* the region is more than one pixel wide and high
crops(roi) == roi.width > 1 /\ roi.height > 1

\* markers.size() == 1 && markers[0].size() == 4, for a detector that finds
\* markers of four corners
found(n) == n = 1

\* detect_with_roi: the test of last_roi; when it fails last_roi is reset
\* and detect_with_roi returns false
CapDetectWithRoi ==
    /\ cap_pc = "detect"
    /\ cap_pc' = IF crops(last_roi) THEN "detect_roi" ELSE "detect_full"
    /\ last_roi' = IF crops(last_roi) THEN last_roi ELSE Sentinel
    /\ UNCHANGED <<trackerVars, lockVars, storeVars>>
    /\ UNCHANGED <<color, ok, outcome, obj_points, rvec, tvec, cap_i>>
    /\ UNCHANGED <<guiVars, dlgVars, dataVars, histVars>>
    /\ UNCHANGED <<detVars, tagVars>>

\* detect_with_roi: detector.detect(grayscale(last_roi), markers, ...); when
\* it does not find exactly one marker last_roi is reset
CapDetectInRoi ==
    /\ cap_pc = "detect_roi"
    /\ \E n \in MarkerCounts :
         /\ markers' = n
         /\ last_roi' = IF found(n) THEN last_roi ELSE Sentinel
         /\ ok' = found(n)
         /\ cap_pc' = IF found(n) THEN "set_points" ELSE "detect_full"
    /\ UNCHANGED <<trackerVars, lockVars, storeVars>>
    /\ UNCHANGED <<color, outcome, obj_points, rvec, tvec, cap_i>>
    /\ UNCHANGED <<guiVars, dlgVars, dataVars, histVars>>
    /\ UNCHANGED <<roi_projection, repr2, h, obj_run, tagVars>>

\* a detection that gives up when the ROI attempt has not found the marker
CapDetectWithoutRoi_GivesUp ==
    /\ cap_pc = "detect_full"
    /\ \E n \in MarkerCounts : markers' = n
    /\ ok' = FALSE
    /\ outcome' = "nodetect"
    /\ cap_pc' = "fail"
    /\ UNCHANGED <<trackerVars, lockVars, storeVars>>
    /\ UNCHANGED <<color, last_roi, obj_points, rvec, tvec, cap_i>>
    /\ UNCHANGED <<guiVars, dlgVars, dataVars, histVars>>
    /\ UNCHANGED <<roi_projection, repr2, h, obj_run, tagVars>>

\* ... || detect_without_roi(): evaluated only when detect_with_roi has
\* returned false; detector.detect(grayscale, markers, ...)
CapDetectWithoutRoi ==
    /\ cap_pc = "detect_full"
    /\ \E n \in MarkerCounts :
         /\ markers' = n
         /\ ok' = found(n)
         /\ outcome' = IF found(n) THEN "none" ELSE "nodetect"
         /\ cap_pc' = IF found(n) THEN "set_points" ELSE "fail"
    /\ UNCHANGED <<trackerVars, lockVars, storeVars>>
    /\ UNCHANGED <<color, last_roi, obj_points, rvec, tvec, cap_i>>
    /\ UNCHANGED <<guiVars, dlgVars, dataVars, histVars>>
    /\ UNCHANGED <<roi_projection, repr2, h, obj_run, tagVars>>

\* set_points(): s.headpos_x, s.headpos_y and s.headpos_z are read one
\* after the other, without a lock, and give the model points their offset
CapSetPoints ==
    /\ cap_pc = "set_points"
    /\ obj_points' = [obj_points EXCEPT ![cap_i + 1] = headpos[cap_i + 1]]
    /\ obj_run' = IF cap_i = 0 THEN calib_active ELSE obj_run
    /\ cap_i' = IF cap_i = 2 THEN 0 ELSE cap_i + 1
    /\ cap_pc' = IF cap_i = 2 THEN "solve" ELSE cap_pc
    /\ UNCHANGED <<trackerVars, lockVars, storeVars>>
    /\ UNCHANGED <<color, last_roi, ok, outcome, rvec, tvec>>
    /\ UNCHANGED <<guiVars, dlgVars, dataVars, histVars>>
    /\ UNCHANGED <<markers, roi_projection, repr2, h, tagVars>>

\* cv::solvePnP fails: goto fail.  The model points are not read again
\* before set_points overwrites them: the model forgets their offset.
CapSolveFail ==
    /\ cap_pc = "solve"
    /\ outcome' = "nosolve"
    /\ obj_points' = ZeroVec
    /\ cap_pc' = "fail"
    /\ UNCHANGED <<trackerVars, lockVars, storeVars>>
    /\ UNCHANGED <<color, last_roi, ok, rvec, tvec, cap_i>>
    /\ UNCHANGED <<guiVars, dlgVars, dataVars, histVars>>
    /\ UNCHANGED <<detVars, tagVars>>

\* cv::solvePnP succeeds
CapSolveOk ==
    /\ cap_pc = "solve"
    /\ \E s \in Solutions :
         /\ rvec' = s.rvec
         /\ tvec' = s.tvec
    /\ outcome' = "solved"
    /\ cap_pc' = "set_last_roi"
    /\ UNCHANGED <<trackerVars, lockVars, storeVars>>
    /\ UNCHANGED <<color, last_roi, ok, obj_points, cap_i>>
    /\ UNCHANGED <<guiVars, dlgVars, dataVars, histVars>>
    /\ UNCHANGED <<detVars, tagVars>>

\* set_last_roi() up to cv::projectPoints: s.headpos_x, s.headpos_y and
\* s.headpos_z are read again, one after the other, and subtracted from the
\* model points; the four points are projected
CapSetLastRoi ==
    /\ cap_pc = "set_last_roi"
    /\ h' = [h EXCEPT ![cap_i + 1] = headpos[cap_i + 1]]
    /\ cap_i' = IF cap_i = 2 THEN 0 ELSE cap_i + 1
    /\ roi_projection' =
         IF cap_i = 2
         THEN ProjectPoints(rvec, [i \in 1..3 |-> obj_points[i] - h'[i]])
         ELSE roi_projection
    /\ cap_pc' = IF cap_i = 2 THEN "set_roi" ELSE cap_pc
    /\ UNCHANGED <<trackerVars, lockVars, storeVars>>
    /\ UNCHANGED <<color, last_roi, ok, outcome, obj_points, rvec, tvec>>
    /\ UNCHANGED <<guiVars, dlgVars, dataVars, histVars>>
    /\ UNCHANGED <<markers, repr2, obj_run, tagVars>>

\* set_last_roi(): set_roi_from_projection().  The offsets of the model
\* points and of roi_points are not read again before set_points and
\* set_last_roi overwrite them: the model forgets them here.
CapSetRoiFromProjection ==
    /\ cap_pc = "set_roi"
    /\ last_roi' = set_roi_from_projection(roi_projection,
                                           color.cols, color.rows)
    /\ obj_points' = ZeroVec
    /\ h' = ZeroVec
    /\ cap_pc' = "draw_centroid"
    /\ UNCHANGED <<trackerVars, lockVars, storeVars>>
    /\ UNCHANGED <<color, ok, outcome, rvec, tvec, cap_i>>
    /\ UNCHANGED <<guiVars, dlgVars, dataVars, histVars>>
    /\ UNCHANGED <<markers, roi_projection, repr2, obj_run, tagVars>>

\* draw_centroid(): the centroid of the model is projected and drawn
CapDrawCentroid ==
    /\ cap_pc = "draw_centroid"
    /\ repr2' = ProjectCentroid(rvec)
    /\ cap_pc' = "rmat_lock"
    /\ UNCHANGED <<trackerVars, lockVars, storeVars, capLocals>>
    /\ UNCHANGED <<guiVars, dlgVars, dataVars, histVars>>
    /\ UNCHANGED <<markers, roi_projection, h, obj_run, tagVars>>

\* a set_rmat that stores without taking mtx
CapRmatLock_NoLock ==
    /\ cap_pc = "rmat_lock"
    /\ cap_pc' = "set_rmat"
    /\ cap_i' = 0
    /\ UNCHANGED <<trackerVars, lockVars, storeVars>>
    /\ UNCHANGED <<color, last_roi, ok, outcome, obj_points, rvec, tvec>>
    /\ UNCHANGED <<guiVars, dlgVars, dataVars, histVars>>
    /\ UNCHANGED <<detVars, tagVars>>

\* set_rmat: cv::Rodrigues, cv::RQDecomp3x3, then QMutexLocker lck(&mtx)
CapRmatLock ==
    /\ cap_pc = "rmat_lock"
    /\ mtx = "free"
    /\ mtx' = "cap"
    /\ cap_pc' = "set_rmat"
    /\ cap_i' = 0
    /\ UNCHANGED <<trackerVars, camera_mtx, storeVars>>
    /\ UNCHANGED <<color, last_roi, ok, outcome, obj_points, rvec, tvec>>
    /\ UNCHANGED <<guiVars, dlgVars, dataVars, histVars>>
    /\ UNCHANGED <<detVars, tagVars>>

\* a set_rmat that negates Y in the published pose
set_rmat_pose_NegatesY(rv, tv) ==
    LET euler == RQDecomp3x3(Rodrigues(rv))
    IN  <<Scale(tv[1]), -Scale(tv[2]), Scale(tv[3]),
          euler[2], -euler[1], euler[3]>>

\* the pose set_rmat publishes for a solution
set_rmat_pose(rv, tv) ==
    LET euler == RQDecomp3x3(Rodrigues(rv))
    IN  <<Scale(tv[1]), Scale(tv[2]), Scale(tv[3]),
          euler[2], -euler[1], euler[3]>>

\* the translation set_rmat stores for getRT
set_rmat_t(tv) == <<tv[1], -tv[2], tv[3]>>

\* the stores of set_rmat, in the order of the code, one at a time: six
\* elements of pose, then r, then t; the lock is released on return
CapRmatStore ==
    /\ cap_pc = "set_rmat"
    /\ cap_i' = IF cap_i = 7 THEN 0 ELSE cap_i + 1
    /\ pose' = IF cap_i < 6
               THEN [pose EXCEPT
                       ![cap_i + 1] = set_rmat_pose(rvec, tvec)[cap_i + 1]]
               ELSE pose
    /\ r' = IF cap_i = 6 THEN Rodrigues(rvec) ELSE r
    /\ t' = IF cap_i = 7 THEN set_rmat_t(tvec) ELSE t
    /\ mtx' = IF cap_i = 7 THEN "free" ELSE mtx
    /\ cap_pc' = IF cap_i = 7 THEN "draw" ELSE cap_pc
    /\ lastGood' = IF cap_i = 7 THEN set_rmat_pose(rvec, tvec) ELSE lastGood
    /\ UNCHANGED <<trackerVars, camera_mtx>>
    /\ UNCHANGED <<color, last_roi, ok, outcome, obj_points, rvec, tvec>>
    /\ store_run' = IF cap_i = 7 THEN obj_run ELSE store_run
    /\ UNCHANGED <<guiVars, dlgVars, dataVars, pose0, run>>
    /\ UNCHANGED <<detVars, format>>

\* a failure branch that leaves the search region as it is
CapFail_KeepsRoi ==
    /\ cap_pc = "fail"
    /\ cap_pc' = "draw"
    /\ UNCHANGED <<trackerVars, lockVars, storeVars, capLocals>>
    /\ UNCHANGED <<guiVars, dlgVars, dataVars, histVars>>
    /\ UNCHANGED <<detVars, tagVars>>

\* a failure branch that also clears the published pose
CapFail_ClearsPose ==
    /\ cap_pc = "fail"
    /\ last_roi' = Sentinel
    /\ pose' = ZeroPose
    /\ cap_pc' = "draw"
    /\ UNCHANGED <<trackerVars, lockVars, r, t>>
    /\ UNCHANGED <<color, ok, outcome, obj_points, rvec, tvec, cap_i>>
    /\ UNCHANGED <<guiVars, dlgVars, dataVars, histVars>>
    /\ UNCHANGED <<detVars, tagVars>>

\* fail: last_roi = cv::Rect(65535, 65535, 0, 0)
CapFail ==
    /\ cap_pc = "fail"
    /\ last_roi' = Sentinel
    /\ cap_pc' = "draw"
    /\ UNCHANGED <<trackerVars, lockVars, storeVars>>
    /\ UNCHANGED <<color, ok, outcome, obj_points, rvec, tvec, cap_i>>
    /\ UNCHANGED <<guiVars, dlgVars, dataVars, histVars>>
    /\ UNCHANGED <<detVars, tagVars>>

\* draw_ar(ok); videoWidget->update_image(frame)
CapDraw ==
    /\ cap_pc = "draw"
    /\ cap_pc' = "loop"
    /\ UNCHANGED <<trackerVars, lockVars, storeVars, capLocals>>
    /\ UNCHANGED <<guiVars, dlgVars, dataVars, histVars>>
    /\ UNCHANGED <<detVars, tagVars>>

Capture ==
    \/ CapOpenLock \/ CapOpenCamera \/ CapLoop \/ CapCameraLock
    \/ CapReadFail \/ CapReadOk \/ CapDetectWithRoi \/ CapDetectInRoi
    \/ CapDetectWithoutRoi \/ CapSetPoints
    \/ CapSolveFail \/ CapSolveOk \/ CapSetLastRoi
    \/ CapSetRoiFromProjection \/ CapDrawCentroid \/ CapRmatLock
    \/ CapRmatStore \/ CapFail \/ CapDraw

\* ------------------------------------------------------------------------
\* The GUI thread: aruco_tracker::start_tracker and ~aruco_tracker
\* ------------------------------------------------------------------------

\* start_tracker up to start(): the widget is created and the capture
\* thread is started
StartTracker ==
    /\ gui_pc = "ready"
    /\ ~stop
    /\ cap_pc = "idle"
    /\ videoWidget = "null"
    /\ videoWidget' = "alive"
    /\ cap_pc' = "open"
    /\ gui_pc' = "zero"
    /\ gui_i' = 0
    /\ UNCHANGED <<stop, camera, layout, slept, lockVars, storeVars>>
    /\ UNCHANGED <<capLocals, gui_r, dlgVars, dataVars, histVars>>
    /\ UNCHANGED <<detVars, tagVars>>

\* start_tracker after start(): pose[i] = 0 for i = 0..5, without mtx, then
\* layout = layout_
StartTrackerZero ==
    /\ gui_pc = "zero"
    /\ pose' = [pose EXCEPT ![gui_i + 1] = 0]
    /\ gui_i' = IF gui_i = 5 THEN 0 ELSE gui_i + 1
    /\ gui_pc' = IF gui_i = 5 THEN "ready" ELSE "zero"
    /\ layout' = IF gui_i = 5 THEN "set" ELSE layout
    /\ UNCHANGED <<stop, camera, videoWidget, slept, lockVars, r, t>>
    /\ UNCHANGED <<capLocals, cap_pc, gui_r, dlgVars, dataVars, histVars>>
    /\ UNCHANGED <<detVars, tagVars>>

\* ~aruco_tracker: stop = true.  The host destroys the tracker after the
\* dialog has forgotten it and the consumer has stopped calling data().
DtorStop ==
    /\ gui_pc = "ready"
    /\ ~stop
    /\ ~tracker
    /\ data_pc = "idle"
    /\ stop' = TRUE
    /\ gui_pc' = "wait"
    /\ UNCHANGED <<camera, videoWidget, layout, slept, lockVars, storeVars>>
    /\ UNCHANGED <<capLocals, cap_pc, gui_i, gui_r, dlgVars, dataVars>>
    /\ UNCHANGED histVars
    /\ UNCHANGED <<detVars, tagVars>>

\* a destructor that does not wait for the capture thread
wait_returns_AtOnce(pc) == TRUE

\* QThread::wait() returns when run() has returned or was never started
wait_returns(pc) == pc \in {"idle", "done"}

\* ~aruco_tracker: wait()
DtorWait ==
    /\ gui_pc = "wait"
    /\ wait_returns(cap_pc)
    /\ gui_pc' = "delete"
    /\ UNCHANGED <<trackerVars, lockVars, storeVars, capLocals, cap_pc>>
    /\ UNCHANGED <<gui_i, gui_r, dlgVars, dataVars, histVars>>
    /\ UNCHANGED <<detVars, tagVars>>

\* ~aruco_tracker: delete videoWidget; delete layout
DtorDelete ==
    /\ gui_pc = "delete"
    /\ videoWidget' = IF videoWidget = "alive" THEN "deleted" ELSE videoWidget
    /\ layout' = IF layout = "set" THEN "deleted" ELSE layout
    /\ gui_pc' = "sleep"
    /\ UNCHANGED <<stop, camera, slept, lockVars, storeVars, capLocals>>
    /\ UNCHANGED <<cap_pc, gui_i, gui_r, dlgVars, dataVars, histVars>>
    /\ UNCHANGED <<detVars, tagVars>>

\* ~aruco_tracker: portable::sleep(1000)
DtorSleep ==
    /\ gui_pc = "sleep"
    /\ slept' = TRUE
    /\ gui_pc' = "release"
    /\ UNCHANGED <<stop, camera, videoWidget, layout, lockVars, storeVars>>
    /\ UNCHANGED <<capLocals, cap_pc, gui_i, gui_r, dlgVars, dataVars>>
    /\ UNCHANGED histVars
    /\ UNCHANGED <<detVars, tagVars>>

\* ~aruco_tracker: camera.release()
DtorRelease ==
    /\ gui_pc = "release"
    /\ camera' = "released"
    /\ gui_pc' = "ready"
    /\ UNCHANGED <<stop, videoWidget, layout, slept, lockVars, storeVars>>
    /\ UNCHANGED <<capLocals, cap_pc, gui_i, gui_r, dlgVars, dataVars>>
    /\ UNCHANGED histVars
    /\ UNCHANGED <<detVars, tagVars>>

\* ------------------------------------------------------------------------
\* The GUI thread: the slots of aruco_dialog
\* ------------------------------------------------------------------------

\* TranslationCalibrator::reset
calibrator_reset == <<>>

\* TranslationCalibrator::update; n records the run that fed the sample
calibrator_update(c, r_, t_, n) == Append(c, [r |-> r_, t |-> t_, run |-> n])

RECURSIVE sum_t(_)
sum_t(c) ==
    IF c = <<>> THEN ZeroVec
    ELSE LET s == sum_t(Tail(c))
         IN  <<Head(c).t[1] + s[1], Head(c).t[2] + s[2], Head(c).t[3] + s[3]>>

\* TranslationCalibrator::get_estimate: a value fitted to all the samples
\* taken since the reset
calibrator_get_estimate(c) == sum_t(c)

\* ITrackerDialog::register_tracker
RegisterTracker ==
    /\ gui_pc = "ready"
    /\ ~stop
    /\ layout = "set"
    /\ ~tracker
    /\ tracker' = TRUE
    /\ UNCHANGED <<trackerVars, lockVars, storeVars, capLocals, cap_pc>>
    /\ UNCHANGED <<guiVars, calib_active, calibrator, headpos, dataVars>>
    /\ UNCHANGED histVars
    /\ UNCHANGED <<detVars, tagVars>>

\* ITrackerDialog::unregister_tracker
UnregisterTracker ==
    /\ gui_pc = "ready"
    /\ tracker
    /\ tracker' = FALSE
    /\ UNCHANGED <<trackerVars, lockVars, storeVars, capLocals, cap_pc>>
    /\ UNCHANGED <<guiVars, calib_active, calibrator, headpos, dataVars>>
    /\ UNCHANGED histVars
    /\ UNCHANGED <<detVars, tagVars>>

\* a start of calibration that does not reset the accumulator
ToggleCalibrateStart_KeepsSamples ==
    /\ gui_pc = "ready"
    /\ ~calib_active
    /\ run < MaxRuns
    /\ headpos' = ZeroVec
    /\ calib_active' = TRUE
    /\ run' = run + 1
    /\ obj_run' = FALSE
    /\ store_run' = FALSE
    /\ UNCHANGED <<trackerVars, lockVars, storeVars, capLocals, cap_pc>>
    /\ UNCHANGED <<guiVars, tracker, calibrator, dataVars, pose0, lastGood>>
    /\ UNCHANGED <<markers, roi_projection, repr2, h, format>>

\* toggleCalibrate, the timer is not active
ToggleCalibrateStart ==
    /\ gui_pc = "ready"
    /\ ~calib_active
    /\ run < MaxRuns
    /\ headpos' = ZeroVec
    /\ calibrator' = calibrator_reset
    /\ calib_active' = TRUE
    /\ run' = run + 1
    /\ obj_run' = FALSE
    /\ store_run' = FALSE
    /\ UNCHANGED <<trackerVars, lockVars, storeVars, capLocals, cap_pc>>
    /\ UNCHANGED <<guiVars, tracker, dataVars, pose0, lastGood>>
    /\ UNCHANGED <<markers, roi_projection, repr2, h, format>>

\* cleanupCalib
cleanupCalib(active) == IF active THEN FALSE ELSE active

\* a stop of calibration that does not commit the estimate
ToggleCalibrateStop_NoCommit ==
    /\ gui_pc = "ready"
    /\ calib_active
    /\ calib_active' = cleanupCalib(calib_active)
    /\ obj_run' = FALSE
    /\ store_run' = FALSE
    /\ UNCHANGED <<trackerVars, lockVars, storeVars, capLocals, cap_pc>>
    /\ UNCHANGED <<guiVars, tracker, calibrator, headpos, dataVars, histVars>>
    /\ UNCHANGED <<markers, roi_projection, repr2, h, format>>

\* toggleCalibrate, the timer is active
ToggleCalibrateStop ==
    /\ gui_pc = "ready"
    /\ calib_active
    /\ calib_active' = cleanupCalib(calib_active)
    /\ headpos' = calibrator_get_estimate(calibrator)
    /\ obj_run' = FALSE
    /\ store_run' = FALSE
    /\ UNCHANGED <<trackerVars, lockVars, storeVars, capLocals, cap_pc>>
    /\ UNCHANGED <<guiVars, tracker, calibrator, dataVars, histVars>>
    /\ UNCHANGED <<markers, roi_projection, repr2, h, format>>

\* update_tracker_calibration on a timeout of calib_timer: getRT takes mtx
UpdateCalibrationLock ==
    /\ gui_pc = "ready"
    /\ calib_active /\ tracker
    /\ Len(calibrator) < MaxSamples
    /\ mtx = "free"
    /\ mtx' = "gui"
    /\ gui_pc' = "getRT_r"
    /\ UNCHANGED <<trackerVars, camera_mtx, storeVars, capLocals, cap_pc>>
    /\ UNCHANGED <<gui_i, gui_r, dlgVars, dataVars, histVars>>
    /\ UNCHANGED <<detVars, tagVars>>

\* getRT: r_ = r
GetRTRotation ==
    /\ gui_pc = "getRT_r"
    /\ gui_r' = r
    /\ gui_pc' = "getRT_t"
    /\ UNCHANGED <<trackerVars, lockVars, storeVars, capLocals, cap_pc>>
    /\ UNCHANGED <<gui_i, dlgVars, dataVars, histVars>>
    /\ UNCHANGED <<detVars, tagVars>>

\* getRT: t_ = t, the lock is released; calibrator.update(r, t); the
\* locals r and t of update_tracker_calibration go out of scope
GetRTTranslation ==
    /\ gui_pc = "getRT_t"
    /\ calibrator' = calibrator_update(calibrator, gui_r, t, run)
    /\ gui_r' = ZeroMat
    /\ mtx' = "free"
    /\ gui_pc' = "ready"
    /\ UNCHANGED <<trackerVars, camera_mtx, storeVars, capLocals, cap_pc>>
    /\ UNCHANGED <<gui_i, tracker, calib_active, headpos, dataVars>>
    /\ UNCHANGED histVars
    /\ UNCHANGED <<detVars, tagVars>>

\* a camera_settings that shows the settings page without camera_mtx
CameraSettingsLock_NoLock ==
    /\ gui_pc = "ready"
    /\ tracker
    /\ gui_pc' = "settings"
    /\ UNCHANGED <<trackerVars, lockVars, storeVars, capLocals, cap_pc>>
    /\ UNCHANGED <<gui_i, gui_r, dlgVars, dataVars, histVars>>
    /\ UNCHANGED <<detVars, tagVars>>

\* camera_settings with a tracker: the settings page of the device is shown
\* under camera_mtx.  (Without a tracker no state of the tracker is used.)
CameraSettingsLock ==
    /\ gui_pc = "ready"
    /\ tracker
    /\ camera_mtx = "free"
    /\ camera_mtx' = "gui"
    /\ gui_pc' = "settings"
    /\ UNCHANGED <<trackerVars, mtx, storeVars, capLocals, cap_pc>>
    /\ UNCHANGED <<gui_i, gui_r, dlgVars, dataVars, histVars>>
    /\ UNCHANGED <<detVars, tagVars>>

\* camera_settings returns
CameraSettingsDone ==
    /\ gui_pc = "settings"
    /\ camera_mtx' = "free"
    /\ gui_pc' = "ready"
    /\ UNCHANGED <<trackerVars, mtx, storeVars, capLocals, cap_pc>>
    /\ UNCHANGED <<gui_i, gui_r, dlgVars, dataVars, histVars>>
    /\ UNCHANGED <<detVars, tagVars>>

\* ------------------------------------------------------------------------
\* The consumer thread: aruco_tracker::data
\* ------------------------------------------------------------------------

\* the order in which data() copies: Yaw, Pitch, Roll, TX, TY, TZ
DataOrder == <<Yaw, Pitch, Roll, TX, TY, TZ>>

\* data(): QMutexLocker lck(&mtx)
DataLock ==
    /\ data_pc = "idle"
    /\ ~stop
    /\ mtx = "free"
    /\ mtx' = "data"
    /\ data_pc' = "copy"
    /\ data_i' = 0
    /\ afterStart' = (layout = "set")
    /\ UNCHANGED <<trackerVars, camera_mtx, storeVars, capLocals, cap_pc>>
    /\ UNCHANGED <<guiVars, dlgVars, buf, histVars>>
    /\ UNCHANGED <<detVars, tagVars>>

\* data(): one element is copied; after the sixth the lock is released
DataCopy ==
    /\ data_pc = "copy"
    /\ buf' = [buf EXCEPT ![DataOrder[data_i + 1]] = pose[DataOrder[data_i + 1]]]
    /\ data_i' = IF data_i = 5 THEN 0 ELSE data_i + 1
    /\ data_pc' = IF data_i = 5 THEN "returned" ELSE "copy"
    /\ mtx' = IF data_i = 5 THEN "free" ELSE mtx
    /\ UNCHANGED <<trackerVars, camera_mtx, storeVars, capLocals, cap_pc>>
    /\ UNCHANGED <<guiVars, dlgVars, afterStart, histVars>>
    /\ UNCHANGED <<detVars, tagVars>>

\* the caller has used the pose
DataReturn ==
    /\ data_pc = "returned"
    /\ data_pc' = "idle"
    /\ buf' = ZeroPose
    /\ afterStart' = FALSE
    /\ UNCHANGED <<trackerVars, lockVars, storeVars, capLocals, cap_pc>>
    /\ UNCHANGED <<guiVars, dlgVars, data_i, histVars>>
    /\ UNCHANGED <<detVars, tagVars>>

Consumer == DataLock \/ DataCopy \/ DataReturn

\* ------------------------------------------------------------------------
\* The camera
\* ------------------------------------------------------------------------

\* the device starts to deliver frames of another size; run() takes the
\* size of every frame from the frame camera.read(color) has filled
FormatChange ==
    /\ camera = "open"
    /\ \E f \in FrameSizes \ {format} : format' = f
    /\ UNCHANGED <<trackerVars, lockVars, storeVars, capLocals, cap_pc>>
    /\ UNCHANGED <<guiVars, dlgVars, dataVars, histVars>>
    /\ UNCHANGED <<detVars, store_run>>

\* ------------------------------------------------------------------------
\* Specifications
\* ------------------------------------------------------------------------

\* the tracker, its consumer and the dialog's use of the camera
Tracker ==
    \/ StartTracker \/ StartTrackerZero
    \/ DtorStop \/ DtorWait \/ DtorDelete \/ DtorSleep \/ DtorRelease
    \/ RegisterTracker \/ UnregisterTracker
    \/ CameraSettingsLock \/ CameraSettingsDone

Next == Capture \/ Tracker \/ Consumer

Spec == Init /\ [][Next]_vars

\* teardown: the consumer has stopped calling data() before the tracker is
\* destroyed, so it is left out; the capture thread is scheduled again and
\* again, and once stop is set no other thread holds a lock it needs
StopNext == Capture \/ Tracker

FairSpec == Init /\ [][StopNext]_vars /\ WF_vars(Capture)

\* the calibration controller of the dialog with a running tracker
Calibration ==
    \/ RegisterTracker \/ UnregisterTracker
    \/ ToggleCalibrateStart \/ ToggleCalibrateStop
    \/ UpdateCalibrationLock \/ GetRTRotation \/ GetRTTranslation

CalibNext == Capture \/ Calibration

\* start_tracker has returned and the capture thread has not yet taken its
\* first step.  Neither the dialog nor the capture thread reads pose, so
\* the interleavings of the zeroing loop of start_tracker with the capture
\* thread, which differ in pose only, are left to Spec.
CalibInit ==
    /\ stop = FALSE
    /\ camera = "none"
    /\ camera_mtx = "free"
    /\ mtx = "free"
    /\ videoWidget = "alive"
    /\ layout = "set"
    /\ slept = FALSE
    /\ color = NoFrame
    /\ last_roi = Sentinel
    /\ ok = FALSE
    /\ outcome = "none"
    /\ obj_points = ZeroVec
    /\ rvec = 0
    /\ tvec = ZeroVec
    /\ pose = ZeroPose
    /\ r = ZeroMat
    /\ t = ZeroVec
    /\ cap_pc = "open"
    /\ cap_i = 0
    /\ gui_pc = "ready"
    /\ gui_i = 0
    /\ gui_r = ZeroMat
    /\ tracker = FALSE
    /\ calib_active = FALSE
    /\ calibrator = <<>>
    /\ headpos = ZeroVec
    /\ data_pc = "idle"
    /\ data_i = 0
    /\ buf = ZeroPose
    /\ afterStart = FALSE
    /\ pose0 = ZeroPose
    /\ lastGood = ZeroPose
    /\ run = 0
    /\ markers = 0
    /\ roi_projection = NoPoints
    /\ repr2 = <<0, 0>>
    /\ h = ZeroVec
    /\ obj_run = FALSE
    /\ store_run = FALSE
    /\ format = Resolution

CalibSpec == CalibInit /\ [][CalibNext]_vars

\* the capture thread in front of a device that changes the size of its
\* frames
FrameNext == Capture \/ StartTracker \/ StartTrackerZero \/ FormatChange

FrameSpec == Init /\ [][FrameNext]_vars

\* set_roi_from_projection and draw_centroid on their own: a solve has
\* succeeded on a frame, set_last_roi has projected the four points, and
\* the points lie around the projected centroid, inside the frame or not
RoiInit ==
    /\ stop = FALSE
    /\ camera = "open"
    /\ camera_mtx = "free"
    /\ mtx = "free"
    /\ videoWidget = "alive"
    /\ layout = "set"
    /\ slept = FALSE
    /\ color \in FrameSizes
    /\ last_roi = Sentinel
    /\ ok = TRUE
    /\ outcome = "solved"
    /\ obj_points = ZeroVec
    /\ rvec \in Rotations
    /\ tvec = <<10, 20, 30>>
    /\ pose = ZeroPose
    /\ r = ZeroMat
    /\ t = ZeroVec
    /\ cap_pc = "set_roi"
    /\ cap_i = 0
    /\ gui_pc = "ready"
    /\ gui_i = 0
    /\ gui_r = ZeroMat
    /\ tracker = FALSE
    /\ calib_active = FALSE
    /\ calibrator = <<>>
    /\ headpos = ZeroVec
    /\ data_pc = "idle"
    /\ data_i = 0
    /\ buf = ZeroPose
    /\ afterStart = FALSE
    /\ pose0 = ZeroPose
    /\ lastGood = ZeroPose
    /\ run = 0
    /\ markers = 1
    /\ \E a1 \in Extents, a2 \in Extents, b1 \in Extents, b2 \in Extents :
         roi_projection = Around(ProjectCentroid(rvec), a1, a2, b1, b2)
    /\ repr2 = <<0, 0>>
    /\ h = ZeroVec
    /\ obj_run = FALSE
    /\ store_run = FALSE
    /\ format = color

RoiNext == CapSetRoiFromProjection \/ CapDrawCentroid

RoiSpec == RoiInit /\ [][RoiNext]_vars

\* ------------------------------------------------------------------------
\* Properties
\* ------------------------------------------------------------------------

\* a step of the capture thread that moves it to another position
CaptureMoves == cap_pc' # cap_pc /\ cap_pc # "idle"

\* C1: in an iteration of the capture loop whose detection fails, or whose
\* detection succeeds and whose pose solve fails, no step of the capture
\* thread changes the published pose: the pose after the iteration is the
\* pose before it.
C1_FailedIterationKeepsPose ==
    [][(CaptureMoves /\ outcome' # "solved") => pose' = pose]_vars

\* C1 witness: an iteration has failed in its solve after an earlier
\* iteration published a pose, and that pose is still the published one.
C1_Witness ==
    /\ cap_pc = "draw"
    /\ outcome = "nosolve"
    /\ lastGood # ZeroPose
    /\ pose = lastGood

\* the poses one write of the pose store can leave: a publication of
\* set_rmat for a solution, or the all-zero initialisation
SingleWrites ==
    { <<s.tvec[1] \div 10, s.tvec[2] \div 10, s.tvec[3] \div 10,
        RQDecomp3x3(Rodrigues(s.rvec))[2],
        -RQDecomp3x3(Rodrigues(s.rvec))[1],
        RQDecomp3x3(Rodrigues(s.rvec))[3]>> : s \in Solutions }
    \cup {ZeroPose}

\* C2: every pose data() returns, for a call made after start_tracker has
\* returned, has its six components from one single write of the pose store.
C2_PoseNeverTorn ==
    (data_pc = "returned" /\ afterStart) => buf \in SingleWrites

\* C3: a call of data() made after start_tracker has returned delivers the
\* pose of the most recent completed detect -> solve cycle, or the all-zero
\* pose when no cycle has succeeded.
C3_DataReturnsLastGood ==
    (data_pc = "returned" /\ afterStart) => buf = lastGood

\* a store of set_rmat
SetRmatStores == cap_pc = "set_rmat" /\ cap_i' # cap_i

C5_OpenFailureTouchesNothing ==
    camera = "failed" =>
        /\ cap_pc = "done"
        /\ color = NoFrame
        /\ last_roi = Sentinel
        /\ r = ZeroMat /\ t = ZeroVec
        /\ \A i \in Axes : pose[i] \in {pose0[i], 0}
        /\ data_pc = "returned" => \A i \in Axes : buf[i] \in {pose0[i], 0}

\* C5 witness: the open has failed and data() has returned after it.
C5_Witness ==
    /\ camera = "failed"
    /\ cap_pc = "done"
    /\ data_pc = "returned"
    /\ afterStart

\* C6: a failed camera read ends the iteration at the loop test with
\* camera_mtx released and with the pose, the store for getRT and the ROI
\* unchanged, and the loop is left only when stop is set.
C6_ReadFailureSkipsIteration ==
    /\ [][(cap_pc = "read" /\ cap_pc' # "read" /\ color' = NoFrame) =>
            /\ cap_pc' = "loop"
            /\ camera_mtx' = "free"
            /\ UNCHANGED <<pose, r, t, last_roi>>]_vars
    /\ [][(cap_pc = "loop" /\ cap_pc' = "done") => stop]_vars

\* C6 witness: a read has failed while a predicted ROI and a published pose
\* were in place, and both are still there at the loop test.
C6_Witness ==
    /\ cap_pc = "loop"
    /\ camera = "open"
    /\ color = NoFrame
    /\ camera_mtx = "free"
    /\ last_roi # Sentinel
    /\ pose = lastGood /\ lastGood # ZeroPose
    /\ ~stop

\* C7: the widget is deleted and the camera released only when the capture
\* thread has left run(), the camera is released only after the settling
\* delay, and the capture thread reads only an open camera and updates only
\* a live widget.
C7_TeardownOrder ==
    /\ videoWidget = "deleted" => cap_pc \in {"idle", "done"}
    /\ camera = "released" => cap_pc \in {"idle", "done"} /\ slept
    /\ cap_pc = "read" => camera = "open"
    /\ cap_pc = "draw" => videoWidget = "alive"

\* C7 witness: a tracker that had read frames has been torn down.
C7_Witness ==
    /\ camera = "released"
    /\ videoWidget = "deleted"
    /\ cap_pc = "done"
    /\ color # NoFrame

\* C8: once stop is set the capture loop starts no further iteration, and
\* under fair scheduling of the capture thread it leaves run(), whatever
\* the frames bring, also when every read fails.
C8_StopEndsLoop ==
    /\ [][(stop /\ cap_pc = "loop" /\ cap_pc' # "loop") => cap_pc' = "done"]_vars
    /\ (stop ~> cap_pc \in {"idle", "done"})

\* C8 witness: the loop of an opened camera has been left after stop was
\* set, the last read having failed.
C8_Witness ==
    /\ stop
    /\ cap_pc = "done"
    /\ camera = "open"
    /\ color = NoFrame

\* C9: while calibration runs the head-center offset is zero, and every
\* sample the accumulator holds was fed in the run started last: starting
\* calibration zeroes the offset and resets the accumulator before the
\* first sample of the run is fed.
C9_CalibrationStartsClean ==
    /\ calib_active => headpos = ZeroVec
    /\ \A i \in 1..Len(calibrator) : calibrator[i].run = run

\* C9 witness: a second run of calibration has fed a sample of a solved
\* pose.
C9_Witness ==
    /\ calib_active
    /\ run = 2
    /\ Len(calibrator) >= 1
    /\ calibrator[1].t # ZeroVec

\* C10: a stop request leaves the timer inactive and the head-center
\* offset equal to the estimate of the accumulator, and no sample is fed
\* while the timer is inactive.
C10_StopCommitsEstimate ==
    /\ [][(calib_active /\ ~calib_active') =>
            /\ headpos' = calibrator_get_estimate(calibrator)
            /\ calibrator' = calibrator]_vars
    /\ [][(~calib_active /\ ~calib_active') => calibrator' = calibrator]_vars
    /\ [](~calib_active => gui_pc \notin {"getRT_r", "getRT_t"})
    /\ []((~calib_active /\ run > 0) =>
            headpos = calibrator_get_estimate(calibrator))

\* C10 witness: calibration has been stopped after feeding samples and the
\* offset holds their estimate.
C10_Witness ==
    /\ ~calib_active
    /\ run > 0
    /\ Len(calibrator) = 2
    /\ headpos # ZeroVec
    /\ headpos = calibrator_get_estimate(calibrator)

\* C11: an iteration that has read a frame and has not reached a
\* successful solve ends with the stored ROI equal to the sentinel; the
\* sentinel stays until the next detection, whatever reads fail in between;
\* and a detection that starts from the sentinel does not crop but goes
\* on to the full-frame detection.
C11_FailureClearsRoi ==
    /\ []((cap_pc = "draw" /\ outcome \in {"nodetect", "nosolve"}) =>
            last_roi = Sentinel)
    /\ [][(cap_pc \in {"draw", "loop", "lock", "read"} /\ last_roi = Sentinel)
            => last_roi' = Sentinel]_vars
    /\ [][(cap_pc = "detect" /\ last_roi = Sentinel /\ cap_pc' # "detect")
            => cap_pc' = "detect_full"]_vars

\* C11 witness: a marker was found and the solve failed, after an earlier
\* solve had succeeded; the iteration ends with the sentinel.
C11_Witness ==
    /\ cap_pc = "draw"
    /\ outcome = "nosolve"
    /\ markers = 1
    /\ rvec # 0
    /\ last_roi = Sentinel

\* C12: the full-frame detection is entered exactly when the ROI attempt
\* has ended without finding the marker, be it skipped or failed, and
\* otherwise the iteration goes on to set_points; a full-frame detection
\* that yields exactly one marker makes the iteration report the marker
\* as found and go on to set_points and the solve.
C12_FallbackRuns ==
    /\ [][(cap_pc \in {"detect", "detect_roi"}
            /\ cap_pc' \notin {"detect", "detect_roi"}) =>
            /\ (cap_pc' = "detect_full")
                 <=> ~(cap_pc = "detect_roi" /\ found(markers'))
            /\ cap_pc' # "detect_full" => (ok' /\ cap_pc' = "set_points")]_vars
    /\ [][(cap_pc' = "detect_full" /\ cap_pc # "detect_full") =>
            cap_pc \in {"detect", "detect_roi"}]_vars
    /\ [][(cap_pc = "detect_full" /\ cap_pc' # "detect_full") =>
            /\ found(markers') => (ok' /\ cap_pc' = "set_points")
            /\ ~found(markers') => (~ok' /\ cap_pc' = "fail")]_vars

\* C12 witness: after an earlier solve, the ROI attempt has not found the
\* marker, the full-frame detection has found exactly one, and the
\* iteration is about to build the model points.
C12_Witness ==
    /\ cap_pc = "set_points"
    /\ cap_i = 0
    /\ ok
    /\ markers = 1
    /\ last_roi = Sentinel
    /\ rvec # 0

\* set_roi_from_projection has computed last_roi from roi_projection
RoiComputed == cap_pc \in {"draw_centroid", "rmat_lock"}

\* C13: the ROI that set_roi_from_projection and clamp_last_roi produce
\* from four projected points and a frame of W columns and H rows has
\* 0 <= x, 0 <= y, x + width <= W - 1, y + height <= H - 1, width >= 1 and
\* height >= 1.
C13_RoiWithinFrame ==
    RoiComputed =>
        /\ 0 <= last_roi.x /\ 0 <= last_roi.y
        /\ last_roi.x + last_roi.width <= color.cols - 1
        /\ last_roi.y + last_roi.height <= color.rows - 1
        /\ last_roi.width >= 1 /\ last_roi.height >= 1

\* draw_centroid has projected the centroid after set_last_roi
CentroidDrawn == cap_pc = "rmat_lock"

\* C14 as stated: after a successful solve the ROI of set_last_roi contains
\* the projected centroid (cx, cy), x <= cx <= x + width and
\* y <= cy <= y + height, whenever the projected corner points lie around
\* it, inside the frame or not.  (Coordinates of points are half pixels.)
C14_Original ==
    CentroidDrawn =>
        /\ 2 * last_roi.x <= repr2[1]
        /\ repr2[1] <= 2 * (last_roi.x + last_roi.width)
        /\ 2 * last_roi.y <= repr2[2]
        /\ repr2[2] <= 2 * (last_roi.y + last_roi.height)

\* the projected centroid lies inside the frame
CentroidInFrame ==
    /\ 0 <= repr2[1] /\ ToInt(repr2[1]) <= color.cols - 1
    /\ 0 <= repr2[2] /\ ToInt(repr2[2]) <= color.rows - 1

\* C14 amended: after a successful solve, when the projected centroid
\* (cx, cy) lies inside the frame and the projected corner points lie
\* around it, inside the frame or not, the ROI of set_last_roi contains the
\* pixel of the centroid: x <= cx, int(cx) <= x + width, y <= cy and
\* int(cy) <= y + height.
C14_CentroidPixelInRoi ==
    (CentroidDrawn /\ CentroidInFrame) =>
        /\ 2 * last_roi.x <= repr2[1]
        /\ ToInt(repr2[1]) <= last_roi.x + last_roi.width
        /\ 2 * last_roi.y <= repr2[2]
        /\ ToInt(repr2[2]) <= last_roi.y + last_roi.height

\* C14 witness: the centroid lies inside the frame, between two pixels,
\* some projected corner points lie left of the frame, and the ROI, clamped
\* to the left edge, contains the pixel of the centroid.
C14_Witness ==
    /\ CentroidDrawn
    /\ CentroidInFrame
    /\ repr2[1] % 2 = 1
    /\ \E i \in 1..4 : roi_projection[i][1] < 0
    /\ last_roi.x = 0
    /\ 2 * last_roi.x <= repr2[1]
    /\ ToInt(repr2[1]) <= last_roi.x + last_roi.width
    /\ ToInt(repr2[2]) <= last_roi.y + last_roi.height

\* the contents of the store for getRT that one update leaves: rotation and
\* translation of one solve, or both initial values
StorePairs ==
    { <<Rodrigues(s.rvec), <<s.tvec[1], -s.tvec[2], s.tvec[3]>> >> :
        s \in Solutions }
    \cup { <<ZeroMat, ZeroVec>> }

\* C15: every pair of rotation and translation that getRT returns to
\* update_tracker_calibration, and so every sample of the accumulator, is
\* the rotation and the translation of one and the same update of the
\* store, or both initial values.
C15_SamplesNotTorn ==
    /\ gui_pc = "getRT_t" => <<gui_r, t>> \in StorePairs
    /\ \A i \in 1..Len(calibrator) :
         <<calibrator[i].r, calibrator[i].t>> \in StorePairs

\* C15 witness: a sample of one solve has been taken and set_rmat has
\* since begun to overwrite the store with another solve: the rotation is
\* stored, the translation not yet, and getRT waits for the lock.
C15_Witness ==
    /\ Len(calibrator) >= 1
    /\ calibrator[1].r # ZeroMat
    /\ cap_pc = "set_rmat" /\ cap_i = 7
    /\ r # calibrator[1].r
    /\ <<r, t>> \notin StorePairs
    /\ calib_active /\ tracker /\ gui_pc = "ready"

\* C16 as stated: while the capture loop executes a camera read, a marker
\* detection or a pose solve it holds neither camera_mtx nor mtx.
C16_Original ==
    cap_pc \in {"read", "detect_roi", "detect_full", "solve"} =>
        (camera_mtx # "cap" /\ mtx # "cap")

\* C16 amended: while the capture loop executes a marker detection or a
\* pose solve it holds neither lock; during the camera read it holds
\* camera_mtx and not mtx; it holds camera_mtx only while it opens the
\* device and reads a frame, and mtx only for the stores of set_rmat.
C16_LocksAroundAccess ==
    /\ cap_pc \in {"detect", "detect_roi", "detect_full", "set_points", "solve"}
         => (camera_mtx # "cap" /\ mtx # "cap")
    /\ cap_pc = "read" => (camera_mtx = "cap" /\ mtx # "cap")
    /\ camera_mtx = "cap" <=> cap_pc \in {"opening", "read"}
    /\ mtx = "cap" <=> cap_pc = "set_rmat"

\* C16 witness: the capture thread is in the camera read with camera_mtx
\* held, and data() copies the pose under mtx meanwhile.
C16_Witness ==
    /\ cap_pc = "read"
    /\ camera_mtx = "cap"
    /\ data_pc = "copy"
    /\ mtx = "data"
    /\ lastGood # ZeroPose

\* C17: no two accesses to the camera of a tracker are in progress at the
\* same time: open_camera and the read of a frame on the capture thread,
\* the settings page of camera_settings and the release in the destructor
\* on the GUI thread; the first three hold camera_mtx, and the release
\* comes when the capture thread has left run().
C17_DeviceAccessExclusive ==
    /\ cap_pc \in {"opening", "read"} =>
         (camera_mtx = "cap" /\ gui_pc \notin {"settings", "release"})
    /\ gui_pc = "settings" =>
         (camera_mtx = "gui" /\ cap_pc \notin {"opening", "read"})
    /\ gui_pc = "release" => cap_pc \in {"idle", "done"}

\* C17 witness: the settings page is open on a camera that has delivered
\* frames, and the capture thread waits for camera_mtx before its read.
C17_Witness ==
    /\ gui_pc = "settings"
    /\ camera_mtx = "gui"
    /\ cap_pc = "lock"
    /\ color # NoFrame

\* C18: every sample fed to the accumulator during a calibration run comes
\* from a solve whose model points set_points built after the reset of
\* the offset that started the run: not from a solve that began before
\* it, and not from the initial contents of the store.
C18_SamplesBuiltInRun ==
    [][Len(calibrator') > Len(calibrator) => store_run]_vars

\* C19: when set_last_roi has read the offset, it is the offset set_points
\* read in the same iteration, and it is one the dialog wrote as a whole:
\* zero, or the estimate that a stop of calibration committed.
C19_OffsetsAgree ==
    (cap_pc = "set_roi" /\ outcome = "solved") =>
        /\ h = obj_points
        /\ obj_points \in
             {ZeroVec} \cup
             { calibrator_get_estimate(c) :
                 c \in UNION { [1..n -> [t : {p[2] : p \in StorePairs}]] :
                                 n \in 0..MaxSamples } }

\* a crop of the frame to last_roi is in progress
Cropping == cap_pc = "detect_roi"

\* C20: whenever the ROI attempt crops the frame, the ROI lies inside the
\* frame that has just been read: 0 <= x, 0 <= y, x + width <= cols and
\* y + height <= rows.
C20_CropInsideFrame ==
    Cropping =>
        /\ 0 <= last_roi.x /\ 0 <= last_roi.y
        /\ last_roi.x + last_roi.width <= color.cols
        /\ last_roi.y + last_roi.height <= color.rows

====
